---- MODULE Spec2Model ----
(***************************************************************************)
(* Roster acquisition and change detection of manager-team-tracker:        *)
(* WebScraper (server/services/scraper.ts), DatabaseStorage                *)
(* (server/storage.ts), SchedulerService (unnamed/part_002)                *)
(* and the scrape routes (server/routes.ts).                               *)
(*                                                                         *)
(* Strings that the code inspects character by character (names, keys)     *)
(* are sequences of one-character strings.  A value of a nullable text     *)
(* column is NULL when absent; an optional property of a scraped record    *)
(* is UNDEF when absent.  The two are different values, as null and        *)
(* undefined are under JavaScript's !==.                                   *)
(***************************************************************************)
EXTENDS Integers, Sequences, FiniteSets, TLC

VARIABLES
    teamMembers,    \* table team_members: sequence of rows, id = position
    changeHistory,  \* table change_history: sequence of rows
    scrapeHistory,  \* table scrape_history: sequence of rows
    firms,          \* table firms: firm id -> [status, lastScraped]
    browser,        \* WebScraper.browser/context: "closed" or "open"
    openPages,      \* pages created by context.newPage() and not closed
    job,            \* the batch or single-firm request in progress
    lastDiff,       \* what the last detectChanges call was given and did
    diffWork,       \* detectChanges calls made plus scraped records given to them
    faults,         \* storage writes that have rejected so far
    dupGiven,       \* some detectChanges call was given a list that repeats a key
    firmRuns,       \* scrapeFirm calls started so far
    runs,           \* the jobs and requests started, each with its position
    page,           \* the page of a dynamic attempt and the controls on it
    call            \* a call of a pure helper: its argument and its result

vars == <<teamMembers, changeHistory, scrapeHistory, firms, browser,
          openPages, job, lastDiff, diffWork, faults, dupGiven, firmRuns,
          runs, page, call>>

----------------------------------------------------------------------------
(* Bounds *)

MaxDiffWork == 6    \* detectChanges calls plus scraped records over a behaviour
MaxFailAt == 2      \* the storage write of a call that may reject: 1..MaxFailAt
MaxFaults == 1      \* storage and file writes that reject over a behaviour
MaxFirmRuns == 2    \* scrapeFirm calls over a behaviour of Spec

----------------------------------------------------------------------------
(* Values *)

NULL == "NULL"
UNDEF == "UNDEF"
NoKey == << >>      \* a falsy string: null, undefined or "" under ||

Firms == {1, 2}

\* Characters in code-point order.
Alphabet == <<" ", ",", ".", ":", "A", "B", "C", "a", "b", "c", "l", "m", "n", "o", "y">>

CharCode(c) == CHOOSE i \in 1..Len(Alphabet) : Alphabet[i] = c

toLowerCaseChar(c) ==
    CASE c = "A" -> "a"
      [] c = "B" -> "b"
      [] c = "C" -> "c"
      [] OTHER -> c

\* String.prototype.toLowerCase
toLowerCase(s) == [i \in 1..Len(s) |-> toLowerCaseChar(s[i])]

IsSpace(c) == c = " "

RECURSIVE trimStart(_)
trimStart(s) ==
    IF s # << >> /\ IsSpace(Head(s)) THEN trimStart(Tail(s)) ELSE s

RECURSIVE trimEnd(_)
trimEnd(s) ==
    IF s # << >> /\ IsSpace(s[Len(s)]) THEN trimEnd(SubSeq(s, 1, Len(s) - 1)) ELSE s

\* String.prototype.trim
trim(s) == trimEnd(trimStart(s))

\* s.replace(/\s+/g, ' ')
RECURSIVE collapseWhitespace(_)
collapseWhitespace(s) ==
    IF s = << >> THEN << >>
    ELSE IF IsSpace(Head(s))
         THEN <<" ">> \o collapseWhitespace(trimStart(s))
         ELSE <<Head(s)>> \o collapseWhitespace(Tail(s))

\* s.replace(/[.,]/g, '')
RECURSIVE stripDotComma(_)
stripDotComma(s) ==
    IF s = << >> THEN << >>
    ELSE IF Head(s) \in {".", ","}
         THEN stripDotComma(Tail(s))
         ELSE <<Head(s)>> \o stripDotComma(Tail(s))

normalizeName(name) ==
    toLowerCase(stripDotComma(collapseWhitespace(trim(name))))

\* the key taken from the email before the profile URL
computeEntityKeyEmailFirst(name, linkedinUrl, email) ==
    IF email # NoKey THEN <<"e", "m", ":">> \o toLowerCase(email)
    ELSE IF linkedinUrl # NoKey THEN <<"l", "i", ":">> \o linkedinUrl
    ELSE <<"n", "m", ":">> \o normalizeName(name)

\* The scraped records of this model carry no linkedinUrl and no email.
computeEntityKey(name, linkedinUrl, email) ==
    IF linkedinUrl # NoKey THEN <<"l", "i", ":">> \o linkedinUrl
    ELSE IF email # NoKey THEN <<"e", "m", ":">> \o toLowerCase(email)
    ELSE <<"n", "m", ":">> \o normalizeName(name)

\* a || b on strings
OrElse(a, b) == IF a # NoKey THEN a ELSE b

----------------------------------------------------------------------------
(* Scraped records *)

Names == { <<"A", "l">>, <<"B", "o">>, <<"C", "y">> }

\* The optional fields of a member card: all found, or none found.
\* seniorityLevel is deriveSeniority(title): absent when the title is.
\* category is the name of the stage filter the card was listed under.
FullCard == [title |-> "Partner", bio |-> "bio", imageUrl |-> "img",
             location |-> "NYC", seniorityLevel |-> "partner",
             category |-> "Growth"]

BareCard == [title |-> UNDEF, bio |-> UNDEF, imageUrl |-> UNDEF,
             location |-> UNDEF, seniorityLevel |-> UNDEF, category |-> UNDEF]

\* the full card, listed under another stage filter
SeedCard == [FullCard EXCEPT !.category = "Seed"]

\* The record extractMemberInfo returns for a card with this name and fields.
extractMemberInfo(name, f) ==
    [name |-> name, title |-> f.title, bio |-> f.bio, imageUrl |-> f.imageUrl,
     location |-> f.location, seniorityLevel |-> f.seniorityLevel,
     category |-> f.category, normalizedName |-> normalizeName(name),
     entityKey |-> computeEntityKey(name, NoKey, NoKey)]

\* The cards the pages of this model show.
ScrapedMembers ==
    { extractMemberInfo(<<"A", "l">>, FullCard), extractMemberInfo(<<"A", "l">>, BareCard),
      extractMemberInfo(<<"B", "o">>, FullCard), extractMemberInfo(<<"C", "y">>, BareCard) }

RECURSIVE SeqsOfLen(_, _)
SeqsOfLen(S, n) ==
    IF n = 0 THEN { << >> }
    ELSE { Append(q, x) : q \in SeqsOfLen(S, n - 1), x \in S }

\* entityKey || normalizedName || name.toLowerCase().replace(/\s+/g, ' ')
DedupKey(m) ==
    OrElse(m.entityKey, OrElse(m.normalizedName, collapseWhitespace(toLowerCase(m.name))))

RECURSIVE deduplicateFrom(_, _)
deduplicateFrom(members, seen) ==
    IF members = << >> THEN << >>
    ELSE LET key == DedupKey(Head(members))
         IN IF key \in seen
            THEN deduplicateFrom(Tail(members), seen)
            ELSE <<Head(members)>> \o deduplicateFrom(Tail(members), seen \cup {key})

\* a filter that drops a record only when the record just before it has its key
RECURSIVE deduplicateAdjacent(_)
deduplicateAdjacent(members) ==
    IF Len(members) < 2 THEN members
    ELSE IF DedupKey(members[1]) = DedupKey(members[2])
         THEN deduplicateAdjacent(<<members[1]>> \o Tail(Tail(members)))
         ELSE <<members[1]>> \o deduplicateAdjacent(Tail(members))

deduplicateMembers(members) == deduplicateFrom(members, {})

----------------------------------------------------------------------------
(* Storage *)

\* A column left out of an insert (an undefined property) is stored as NULL.
Column(v) == IF v = UNDEF THEN NULL ELSE v

\* .set() skips undefined properties: the column keeps its value.
SetColumn(old, v) == IF v = UNDEF THEN old ELSE v

\* an insert that turns a stored inactive row of the same firm and key active
\* again when there is one
createOrReactivate(tm, firmId, s, key) ==
    LET old == { i \in 1..Len(tm) : tm[i].firmId = firmId /\ tm[i].entityKey = key
                                      /\ ~tm[i].isActive }
    IN  IF old = {}
        THEN Append(tm, [id |-> Len(tm) + 1, firmId |-> firmId, name |-> s.name,
                         title |-> Column(s.title), bio |-> Column(s.bio),
                         imageUrl |-> Column(s.imageUrl),
                         location |-> Column(s.location),
                         seniorityLevel |-> Column(s.seniorityLevel),
                         category |-> Column(s.category),
                         normalizedName |-> s.normalizedName, entityKey |-> key,
                         isActive |-> TRUE, lastSeen |-> 0])
        ELSE [tm EXCEPT ![CHOOSE i \in old : TRUE].isActive = TRUE]

\* lastSeen is not among the inserted values, so the column takes its default,
\* now().  Times are counted from the insert of the row: 0 is the time of the
\* insert, and a later write of the current time would store a larger number.
createTeamMember(tm, firmId, s, key) ==
    Append(tm, [id |-> Len(tm) + 1, firmId |-> firmId, name |-> s.name,
                title |-> Column(s.title), bio |-> Column(s.bio),
                imageUrl |-> Column(s.imageUrl), location |-> Column(s.location),
                seniorityLevel |-> Column(s.seniorityLevel),
                category |-> Column(s.category),
                normalizedName |-> s.normalizedName, entityKey |-> key,
                isActive |-> TRUE, lastSeen |-> 0])

updateTeamMember(tm, id, s, existing) ==
    [tm EXCEPT ![id] =
        [@ EXCEPT !.title = SetColumn(@, s.title),
                  !.bio = SetColumn(@, s.bio),
                  !.imageUrl = SetColumn(@, s.imageUrl),
                  !.location = SetColumn(@, s.location),
                  !.seniorityLevel = SetColumn(@, s.seniorityLevel),
                  !.normalizedName = OrElse(s.normalizedName, @),
                  !.entityKey = OrElse(s.entityKey, existing.entityKey)]]

deactivateTeamMember(tm, id) == [tm EXCEPT ![id].isActive = FALSE]

\* name order of two strings: TRUE when a sorts before b
RECURSIVE NameBefore(_, _)
NameBefore(a, b) ==
    IF b = << >> THEN FALSE
    ELSE IF a = << >> THEN TRUE
    ELSE IF Head(a) # Head(b) THEN CharCode(Head(a)) < CharCode(Head(b))
    ELSE NameBefore(Tail(a), Tail(b))

RECURSIVE InsertByName(_, _)
InsertByName(sorted, m) ==
    IF sorted = << >> THEN <<m>>
    ELSE IF NameBefore(m.name, Head(sorted).name)
         THEN <<m>> \o sorted
         ELSE <<Head(sorted)>> \o InsertByName(Tail(sorted), m)

RECURSIVE OrderByName(_)
OrderByName(rows) ==
    IF rows = << >> THEN << >>
    ELSE InsertByName(OrderByName(SubSeq(rows, 1, Len(rows) - 1)), rows[Len(rows)])

\* rows of equal name come out in id order
getActiveTeamMembersByFirm(tm, firmId) ==
    OrderByName(SelectSeq(tm, LAMBDA m : m.firmId = firmId /\ m.isActive))

createChangeHistory(ch, firmId, memberId, changeType, memberName, previousData, newData) ==
    Append(ch, [firmId |-> firmId, memberId |-> memberId,
                changeType |-> changeType, memberName |-> memberName,
                previousData |-> previousData, newData |-> newData])

----------------------------------------------------------------------------
(* WebScraper.detectChanges *)

\* key of a stored member: entityKey || name.toLowerCase()
CurrentKey(m) == OrElse(m.entityKey, toLowerCase(m.name))

\* key of a scraped member: entityKey || (normalizedName || name.toLowerCase())
ScrapedKey(s) == OrElse(s.entityKey, OrElse(s.normalizedName, toLowerCase(s.name)))

\* a lookup that sees only the first record of the list
ScrapedHasHead(scraped, key) == scraped # << >> /\ ScrapedKey(scraped[1]) = key

\* scrapedMemberMap.has(key)
ScrapedHas(scraped, key) == \E i \in 1..Len(scraped) : ScrapedKey(scraped[i]) = key

\* The map keyed by name alone, as the earlier scraper (unnamed/part_005) built it.
CurrentGetByName(current, key) ==
    LET hits == { i \in 1..Len(current) : toLowerCase(current[i].name) = key }
    IN IF hits = {} THEN << >>
       ELSE <<current[CHOOSE i \in hits : \A j \in hits : j <= i]>>

\* currentMemberMap.get(key): of two entries with one key the later one stays.
\* The value is the row as read at the start of the run; << >> when absent.
CurrentGet(current, key) ==
    LET hits == { i \in 1..Len(current) : CurrentKey(current[i]) = key }
    IN IF hits = {} THEN << >>
       ELSE <<current[CHOOSE i \in hits : \A j \in hits : j <= i]>>

\* previousData of a `removed` or `updated` event, newData of an `added` one:
\* { name, title, bio, location } of the stored or of the scraped member
DataOf(m) == [name |-> m.name, title |-> m.title, bio |-> m.bio, location |-> m.location]

\* newData of an `updated` event: the stored name with the scraped values
UpdatedDataOf(existing, s) ==
    [name |-> existing.name, title |-> s.title, bio |-> s.bio, location |-> s.location]

hasChanges(existing, s) ==
    \/ existing.title # s.title
    \/ existing.bio # s.bio
    \/ existing.imageUrl # s.imageUrl
    \/ existing.location # s.location
    \/ existing.seniorityLevel # s.seniorityLevel

\* The state of a run: the two tables, changesDetected, the number of storage
\* writes attempted, and whether a write has thrown (which ends the run).
\* The write numbered failAt rejects; failAt = 0 means that none does.
RemovedStep(acc, m, scraped, firmId, failAt) ==
    IF acc.threw \/ ScrapedHas(scraped, CurrentKey(m)) THEN acc
    ELSE IF acc.w + 1 = failAt
         THEN [acc EXCEPT !.w = @ + 1, !.threw = TRUE]
    ELSE IF acc.w + 2 = failAt
         THEN [acc EXCEPT !.tm = deactivateTeamMember(@, m.id),
                          !.w = @ + 2, !.threw = TRUE]
    ELSE [acc EXCEPT !.tm = deactivateTeamMember(@, m.id),
                     !.ch = createChangeHistory(@, firmId, m.id, "removed", m.name,
                                                DataOf(m), NULL),
                     !.w = @ + 2, !.count = @ + 1]

ScrapedStep(acc, s, current, firmId, failAt) ==
    LET key == ScrapedKey(s)
        found == CurrentGet(current, key)
    IN IF acc.threw THEN acc
       ELSE IF found = << >>
            THEN IF acc.w + 1 = failAt
                 THEN [acc EXCEPT !.w = @ + 1, !.threw = TRUE]
                 ELSE IF acc.w + 2 = failAt
                 THEN [acc EXCEPT !.tm = createTeamMember(@, firmId, s, key),
                                  !.w = @ + 2, !.threw = TRUE]
                 ELSE [acc EXCEPT !.tm = createTeamMember(@, firmId, s, key),
                                  !.ch = createChangeHistory(@, firmId, Len(acc.tm) + 1,
                                                             "added", s.name, NULL,
                                                             DataOf(s)),
                                  !.w = @ + 2, !.count = @ + 1]
       ELSE LET existingMember == found[1]
            IN IF ~hasChanges(existingMember, s) THEN acc
               ELSE IF acc.w + 1 = failAt
                    THEN [acc EXCEPT !.w = @ + 1, !.threw = TRUE]
               ELSE IF acc.w + 2 = failAt
                    THEN [acc EXCEPT !.tm = updateTeamMember(@, existingMember.id, s,
                                                             existingMember),
                                     !.w = @ + 2, !.threw = TRUE]
               ELSE [acc EXCEPT !.tm = updateTeamMember(@, existingMember.id, s,
                                                        existingMember),
                                !.ch = createChangeHistory(@, firmId, existingMember.id,
                                                           "updated", existingMember.name,
                                                           DataOf(existingMember),
                                                           UpdatedDataOf(existingMember, s)),
                                !.w = @ + 2, !.count = @ + 1]

RECURSIVE RemovedLoop(_, _, _, _, _)
RemovedLoop(acc, rest, scraped, firmId, failAt) ==
    IF rest = << >> THEN acc
    ELSE RemovedLoop(RemovedStep(acc, Head(rest), scraped, firmId, failAt),
                     Tail(rest), scraped, firmId, failAt)

RECURSIVE ScrapedLoop(_, _, _, _, _)
ScrapedLoop(acc, rest, current, firmId, failAt) ==
    IF rest = << >> THEN acc
    ELSE ScrapedLoop(ScrapedStep(acc, Head(rest), current, firmId, failAt),
                     Tail(rest), current, firmId, failAt)

\* The call reading every row of the firm (getTeamMembersByFirm), the inactive
\* ones too.
detectChangesAllRows(tm, ch, firmId, scraped, failAt) ==
    LET currentMembers == OrderByName(SelectSeq(tm, LAMBDA m : m.firmId = firmId))
        start == [tm |-> tm, ch |-> ch, count |-> 0, w |-> 0, threw |-> FALSE]
        removed == RemovedLoop(start, currentMembers, scraped, firmId, failAt)
    IN ScrapedLoop(removed, scraped, currentMembers, firmId, failAt)

\* The call after its read: the two maps and the two loops over currentMembers
\* in the order the read returned them.
detectChangesOn(tm, ch, firmId, currentMembers, scraped, failAt) ==
    LET start == [tm |-> tm, ch |-> ch, count |-> 0, w |-> 0, threw |-> FALSE]
        removed == RemovedLoop(start, currentMembers, scraped, firmId, failAt)
    IN ScrapedLoop(removed, scraped, currentMembers, firmId, failAt)

\* a call that leaves the roster alone when it is given no scraped member
detectChangesUnlessEmpty(tm, ch, firmId, scraped, failAt) ==
    IF scraped = << >>
    THEN [tm |-> tm, ch |-> ch, count |-> 0, w |-> 0, threw |-> FALSE]
    ELSE detectChangesOn(tm, ch, firmId, getActiveTeamMembersByFirm(tm, firmId),
                         scraped, failAt)

\* The whole call: the tables after it, the count it returns, whether it threw.
detectChanges(tm, ch, firmId, scraped, failAt) ==
    detectChangesOn(tm, ch, firmId, getActiveTeamMembersByFirm(tm, firmId), scraped, failAt)

----------------------------------------------------------------------------
(* Change detection on its own: detectChanges called with scraped lists *)

\* A row written by the earlier scraper (unnamed/part_005), which set
\* neither entityKey nor normalizedName nor location nor seniorityLevel.
LegacyRow(id, firmId, name) ==
    [id |-> id, firmId |-> firmId, name |-> name, title |-> "Partner",
     bio |-> "bio", imageUrl |-> "img", location |-> NULL,
     seniorityLevel |-> NULL, category |-> NULL, normalizedName |-> NoKey,
     entityKey |-> NoKey,
     isActive |-> TRUE, lastSeen |-> 0]

InitialRosters ==
    { << >>, <<LegacyRow(1, 1, <<"A", "l">>), LegacyRow(2, 2, <<"A", "l">>)>> }

\* The scraped lists of each length, in every order and with repeats.
ScrapedLists == [n \in 0..MaxDiffWork |-> SeqsOfLen(ScrapedMembers, n)]

\* The firm whose roster the calls of SpecDiff reconcile.
DiffFirms == {1}

NoDiff == [firmId |-> 0, scraped |-> << >>, previous |-> << >>, rowsBefore |-> 0,
           eventsBefore |-> 0, count |-> 0, threw |-> FALSE, failAt |-> 0]

NoAttempt == [kind |-> "none", count |-> 0]

NoResult == [state |-> "none", count |-> 0, error |-> FALSE]

IdleJob ==
    [kind |-> "none", pc |-> "done", batch |-> << >>, queue |-> << >>,
     visited |-> << >>, caught |-> {}, firm |-> 0, static |-> NoAttempt,
     dynamic |-> NoAttempt, launched |-> FALSE, ff |-> NoResult,
     sf |-> NoResult, rowsBefore |-> 0, delayed |-> {}]

\* no dynamic attempt has opened a page
NoPage == [pc |-> "none", tabs |-> 0, filters |-> 0, i |-> 0, missed |-> 0,
           stages |-> 0]

\* no helper has been called
NoCall == [fn |-> "none"]

InitTables ==
    /\ changeHistory = << >>
    /\ scrapeHistory = << >>
    /\ firms = [f \in Firms |-> [status |-> "active", lastScraped |-> FALSE]]
    /\ browser = "closed"
    /\ openPages = 0
    /\ job = IdleJob
    /\ lastDiff = NoDiff
    /\ diffWork = 0
    /\ faults = 0
    /\ dupGiven = FALSE
    /\ firmRuns = 0
    /\ runs = << >>
    /\ page = NoPage
    /\ call = NoCall

InitDiff ==
    /\ teamMembers \in InitialRosters
    /\ InitTables

ScrapedKeys(scraped) == { ScrapedKey(scraped[i]) : i \in 1..Len(scraped) }

CurrentKeys(current) == { CurrentKey(current[i]) : i \in 1..Len(current) }

\* One call detectChanges(firmId, scraped) in which the storage write numbered
\* failAt rejects (none when failAt = 0).
DetectChangesCall(firmId, scraped, failAt) ==
    /\ diffWork + 1 + Len(scraped) <= MaxDiffWork
    /\ failAt > 0 => faults < MaxFaults
    /\ \E r \in { detectChanges(teamMembers, changeHistory, firmId, scraped, failAt) } :
        /\ failAt > 0 => r.threw
        /\ teamMembers' = r.tm
        /\ changeHistory' = r.ch
        /\ lastDiff' = [firmId |-> firmId, scraped |-> scraped,
                        previous |-> getActiveTeamMembersByFirm(teamMembers, firmId),
                        rowsBefore |-> Len(teamMembers),
                        eventsBefore |-> Len(changeHistory),
                        count |-> r.count, threw |-> r.threw,
                        failAt |-> failAt]
        /\ faults' = IF r.threw THEN faults + 1 ELSE faults
    /\ diffWork' = diffWork + 1 + Len(scraped)
    /\ dupGiven' = (dupGiven \/ Cardinality(ScrapedKeys(scraped)) < Len(scraped))
    /\ UNCHANGED <<scrapeHistory, firms, browser, openPages, job, firmRuns,
                   runs, page, call>>

NextDiff ==
    \E firmId \in DiffFirms, n \in 0..(MaxDiffWork - diffWork - 1) :
        \E scraped \in ScrapedLists[n], failAt \in 0..MaxFailAt :
            DetectChangesCall(firmId, scraped, failAt)

SpecDiff == InitDiff /\ [][NextDiff]_vars

----------------------------------------------------------------------------
(* Properties of detectChanges, stated of the last call (SpecDiff) *)

DiffDone == lastDiff.firmId # 0

\* the change_history rows the last call wrote
RunEvents == SubSeq(changeHistory, lastDiff.eventsBefore + 1, Len(changeHistory))

EventsOfType(t) == { i \in 1..Len(RunEvents) : RunEvents[i].changeType = t }

EventsFor(t, memberId) == { i \in EventsOfType(t) : RunEvents[i].memberId = memberId }

\* a stored column and a scraped property hold the same value, or are both absent
SameValue(column, property) ==
    IF column = NULL THEN property = UNDEF ELSE column = property

SameFields(m, s) ==
    /\ SameValue(m.title, s.title)
    /\ SameValue(m.bio, s.bio)
    /\ SameValue(m.imageUrl, s.imageUrl)
    /\ SameValue(m.location, s.location)
    /\ SameValue(m.seniorityLevel, s.seniorityLevel)

UniqueKeys(previous, scraped) ==
    /\ Cardinality(CurrentKeys(previous)) = Len(previous)
    /\ Cardinality(ScrapedKeys(scraped)) = Len(scraped)

\* the scraped list is the stored active roster, field for field
FieldForFieldIdentical(previous, scraped) ==
    /\ UniqueKeys(previous, scraped)
    /\ CurrentKeys(previous) = ScrapedKeys(scraped)
    /\ \A i \in 1..Len(previous), j \in 1..Len(scraped) :
          CurrentKey(previous[i]) = ScrapedKey(scraped[j])
              => SameFields(previous[i], scraped[j])

\* C1: a call whose scraped list is field-for-field identical to the stored
\* active roster (optional fields absent on both sides where they are absent)
\* creates no change-history row, writes no team member and returns 0.
C1_Idempotent ==
    (DiffDone /\ FieldForFieldIdentical(lastDiff.previous, lastDiff.scraped))
        => /\ lastDiff.count = 0
           /\ Len(changeHistory) = lastDiff.eventsBefore
           /\ Len(teamMembers) = lastDiff.rowsBefore
           /\ getActiveTeamMembersByFirm(teamMembers, lastDiff.firmId) = lastDiff.previous

\* C2: with unique keys on both sides, a call that returns emits exactly one
\* `removed` event for each stored key missing from the scraped list and
\* deactivates that member, exactly one `added` event for each scraped key
\* missing from the stored roster and creates that member active, no `added`
\* or `removed` event for a key on both sides, and no `updated` event for a
\* member that is on both sides unchanged.
C2_SetDifference ==
    (DiffDone /\ ~lastDiff.threw /\ UniqueKeys(lastDiff.previous, lastDiff.scraped))
        => LET P == lastDiff.previous
               N == lastDiff.scraped
           IN /\ \A i \in 1..Len(P) :
                    IF CurrentKey(P[i]) \in ScrapedKeys(N)
                    THEN /\ EventsFor("removed", P[i].id) = {}
                         /\ EventsFor("added", P[i].id) = {}
                         /\ teamMembers[P[i].id].isActive
                    ELSE /\ Cardinality(EventsFor("removed", P[i].id)) = 1
                         /\ ~teamMembers[P[i].id].isActive
              /\ Cardinality(EventsOfType("removed"))
                    = Cardinality(CurrentKeys(P) \ ScrapedKeys(N))
              /\ Cardinality(EventsOfType("added"))
                    = Cardinality(ScrapedKeys(N) \ CurrentKeys(P))
              /\ \A e \in EventsOfType("added") :
                    LET row == teamMembers[RunEvents[e].memberId]
                    IN /\ row.id > lastDiff.rowsBefore
                       /\ row.isActive
                       /\ row.firmId = lastDiff.firmId
                       /\ row.entityKey \in ScrapedKeys(N) \ CurrentKeys(P)
                       /\ Cardinality(EventsFor("added", row.id)) = 1
              /\ \A i \in 1..Len(P), j \in 1..Len(N) :
                    (CurrentKey(P[i]) = ScrapedKey(N[j]) /\ SameFields(P[i], N[j]))
                        => EventsFor("updated", P[i].id) = {}

\* The set difference alone, without the last conjunct of C2_SetDifference.
SetDifferenceOnly ==
    (DiffDone /\ ~lastDiff.threw /\ UniqueKeys(lastDiff.previous, lastDiff.scraped))
        => LET P == lastDiff.previous
               N == lastDiff.scraped
           IN /\ \A i \in 1..Len(P) :
                    IF CurrentKey(P[i]) \in ScrapedKeys(N)
                    THEN /\ EventsFor("removed", P[i].id) = {}
                         /\ EventsFor("added", P[i].id) = {}
                         /\ teamMembers[P[i].id].isActive
                    ELSE /\ Cardinality(EventsFor("removed", P[i].id)) = 1
                         /\ ~teamMembers[P[i].id].isActive
              /\ Cardinality(EventsOfType("removed"))
                    = Cardinality(CurrentKeys(P) \ ScrapedKeys(N))
              /\ Cardinality(EventsOfType("added"))
                    = Cardinality(ScrapedKeys(N) \ CurrentKeys(P))

\* C3: the events a call creates, and the count it returns, number at most the
\* previously active members plus the scraped members, repeated keys or not;
\* a call that returns returns the number of events it created.
C3_Conservation ==
    DiffDone =>
        /\ lastDiff.count <= Len(lastDiff.previous) + Len(lastDiff.scraped)
        /\ Len(RunEvents) <= Len(lastDiff.previous) + Len(lastDiff.scraped)
        /\ ~lastDiff.threw => lastDiff.count = Len(RunEvents)

\* a call given a repeated key, on a roster that holds a repeated key, reached
\* the bound
C3_Witness ==
    /\ DiffDone
    /\ Cardinality(ScrapedKeys(lastDiff.scraped)) < Len(lastDiff.scraped)
    /\ Cardinality(CurrentKeys(lastDiff.previous)) < Len(lastDiff.previous)
    /\ lastDiff.count = Len(lastDiff.previous) + Len(lastDiff.scraped)

ActiveRows(firmId) ==
    { i \in 1..Len(teamMembers) : teamMembers[i].firmId = firmId /\ teamMembers[i].isActive }

\* C4: as long as every call was given a list without repeated keys, no two
\* active members of a firm have the same entityKey.
C4_OneActivePerKey ==
    ~dupGiven =>
        \A f \in Firms : \A i, j \in ActiveRows(f) :
            (i # j /\ teamMembers[i].entityKey # NoKey)
                => teamMembers[i].entityKey # teamMembers[j].entityKey

\* a second call found a member of the first again and added another
C4_Witness ==
    /\ ~dupGiven
    /\ DiffDone
    /\ \E i \in 1..Len(lastDiff.previous) :
          /\ lastDiff.previous[i].entityKey # NoKey
          /\ lastDiff.previous[i].entityKey \in ScrapedKeys(lastDiff.scraped)
    /\ EventsOfType("added") # {}
    /\ Cardinality(ActiveRows(lastDiff.firmId)) >= 2

----------------------------------------------------------------------------
(* Acquisition: scrapeFirmWithFallback, scrapeFirm and their callers *)

\* members.length >= 5
MinMembers == 5

StaticSufficientStrict(n) == n > MinMembers

StaticSufficient(n) == n >= MinMembers

\* the record counts an attempt comes back with
FoundCounts == {0, 2, MinMembers}

\* the people of a team page, in page order
PagePeople == << <<"A", "l">>, <<"B", "o">>, <<"C", "y">>, <<"A", "b">>, <<"B", "a">> >>

\* the deduplicated list parseTeamPage returns when it finds n members
Roster(n) == [i \in 1..n |-> extractMemberInfo(PagePeople[i], FullCard)]

\* fetch rejects or parsing throws; response.ok is false; n members parsed
StaticOutcomes ==
    { [kind |-> "threw", count |-> 0], [kind |-> "notOk", count |-> 0] }
        \cup { [kind |-> "parsed", count |-> n] : n \in FoundCounts }

\* chromium.launch rejects; a step after newPage() throws; n members found
DynamicOutcomes ==
    { [kind |-> "launchThrew", count |-> 0], [kind |-> "threw", count |-> 0] }
        \cup { [kind |-> "returned", count |-> n] : n \in FoundCounts }

\* the loop goes on with the firms left, whether or not this one threw
AfterFirmAbort(queue, threw) == IF threw THEN << >> ELSE queue

AfterFirm(queue, threw) == queue

\* the firm loop takes its next firm, or ends
BeginFirm(j, queue) ==
    IF queue = << >>
    THEN [j EXCEPT !.pc = "finish", !.queue = << >>, !.firm = 0,
                   !.static = NoAttempt, !.dynamic = NoAttempt,
                   !.launched = FALSE, !.ff = NoResult, !.sf = NoResult]
    ELSE [j EXCEPT !.pc = "static", !.queue = Tail(queue), !.firm = Head(queue),
                   !.visited = Append(@, Head(queue)),
                   !.static = NoAttempt, !.dynamic = NoAttempt,
                   !.launched = FALSE, !.ff = NoResult, !.sf = NoResult,
                   !.rowsBefore = Len(scrapeHistory)]

FirmsInOrder == <<1, 2>>

StartJob(kind, batch) ==
    /\ job.pc = "done"
    /\ firmRuns + Len(batch) <= MaxFirmRuns
    /\ batch # << >>
    /\ job' = BeginFirm([IdleJob EXCEPT !.kind = kind, !.batch = batch], batch)
    /\ firmRuns' = firmRuns + Len(batch)
    /\ UNCHANGED <<teamMembers, changeHistory, scrapeHistory, firms, browser,
                   openPages, lastDiff, diffWork, faults, dupGiven,
                   runs, page, call>>

\* SchedulerService.runScrapingJob: every firm, whatever its status
StartScheduled == StartJob("scheduled", FirmsInOrder)

\* POST /api/scrape/all: the firms whose status is 'active'
StartAll == StartJob("all", SelectSeq(FirmsInOrder, LAMBDA f : firms[f].status = "active"))

\* POST /api/scrape/firm/:id
StartSingle(f) == StartJob("single", <<f>>)

\* scrapeFirmWithFallback, the try block: fetch and parseTeamPage
StaticAttempt(out) ==
    /\ job.pc = "static"
    /\ job' = IF out.kind = "parsed" /\ StaticSufficient(out.count)
              THEN [job EXCEPT !.static = out, !.pc = "record",
                               !.ff = [state |-> "returned", count |-> out.count,
                                       error |-> FALSE]]
              ELSE [job EXCEPT !.static = out, !.pc = "dynamic"]
    /\ UNCHANGED <<teamMembers, changeHistory, scrapeHistory, firms, browser,
                   openPages, lastDiff, diffWork, faults, dupGiven, firmRuns,
                   runs, page, call>>

\* scrapeFirmWithFallback, the catch block: initialize(), newPage(), the page
\* steps, page.close().  A throw after newPage() leaves the page open.
DynamicAttempt(out) ==
    /\ job.pc = "dynamic"
    /\ out.kind = "launchThrew" => browser = "closed"
    /\ browser' = IF out.kind = "launchThrew" THEN "closed" ELSE "open"
    /\ openPages' = IF out.kind = "threw" THEN openPages + 1 ELSE openPages
    /\ job' = [job EXCEPT !.dynamic = out, !.pc = "record",
                          !.launched = (browser = "closed"),
                          !.ff = IF out.kind = "returned"
                                 THEN [state |-> "returned", count |-> out.count,
                                       error |-> FALSE]
                                 ELSE [state |-> "threw", count |-> 0, error |-> TRUE]]
    /\ UNCHANGED <<teamMembers, changeHistory, scrapeHistory, firms,
                   lastDiff, diffWork, faults, dupGiven, firmRuns,
                   runs, page, call>>

createScrapeHistory(sh, firmId, status, membersFound) ==
    Append(sh, [firmId |-> firmId, status |-> status, membersFound |-> membersFound])

\* an update that also puts the status back to 'active'
updateFirmReactivating(fs, firmId) ==
    [fs EXCEPT ![firmId].lastScraped = TRUE, ![firmId].status = "active"]

\* storage.updateFirm(firm.id, { lastScraped: new Date() })
updateFirmLastScraped(fs, firmId) == [fs EXCEPT ![firmId].lastScraped = TRUE]

TryFaults == {"none", "artifact", "history", "firm"}

CatchFaults == {"none", "history", "firm"}

\* scrapeFirm after scrapeFirmWithFallback has settled.  tryFault names the
\* write of the try block that rejects (the artifact files, createScrapeHistory,
\* updateFirm), catchFault the write of the catch block that rejects.
RecordScrape(tryFault, catchFault) ==
    LET ok == job.ff.state = "returned"
        inCatch == ~ok \/ tryFault # "none"
        n == (IF tryFault # "none" THEN 1 ELSE 0) + (IF catchFault # "none" THEN 1 ELSE 0)
        rows1 == IF ok /\ tryFault \in {"none", "firm"}
                 THEN createScrapeHistory(scrapeHistory, job.firm, "success", job.ff.count)
                 ELSE scrapeHistory
        rows2 == IF inCatch /\ catchFault # "history"
                 THEN createScrapeHistory(rows1, job.firm, "error", 0)
                 ELSE rows1
        firms1 == IF ok /\ tryFault = "none"
                  THEN updateFirmLastScraped(firms, job.firm)
                  ELSE firms
        firms2 == IF inCatch /\ catchFault = "none"
                  THEN [firms1 EXCEPT ![job.firm].status = "error"]
                  ELSE firms1
    IN /\ job.pc = "record"
       /\ ~ok => tryFault = "none"
       /\ ~inCatch => catchFault = "none"
       /\ faults + n <= MaxFaults
       /\ scrapeHistory' = rows2
       /\ firms' = firms2
       /\ faults' = faults + n
       /\ job' = [job EXCEPT
                    !.pc = "caller",
                    !.sf = IF ~inCatch
                           THEN [state |-> "returned", count |-> job.ff.count,
                                 error |-> FALSE]
                           ELSE IF catchFault = "none"
                           THEN [state |-> "returned", count |-> 0, error |-> TRUE]
                           ELSE [state |-> "threw", count |-> 0, error |-> TRUE]]
       /\ UNCHANGED <<teamMembers, changeHistory, browser, openPages, lastDiff,
                      diffWork, dupGiven, firmRuns,
                   runs, page, call>>

\* await this.delay(2000), the last statement of the try block of the firm loop
\* of runScrapingJob: reached when scrapeFirm returned no error and detectChanges
\* returned.  The loops of the two routes have no such statement.
DelayAfterFirm(kind, completed) == kind = "scheduled" /\ completed

\* The caller after scrapeFirm has settled: the body of the firm loop of
\* runScrapingJob and of POST /api/scrape/all, or POST /api/scrape/firm/:id.
\* A result with an error, or a throw, skips detectChanges.
CallerStep(failAt) ==
    /\ job.pc = "caller"
    /\ IF job.sf.state = "returned" /\ ~job.sf.error
       THEN /\ failAt > 0 => faults < MaxFaults
            /\ \E r \in { detectChanges(teamMembers, changeHistory, job.firm,
                                        Roster(job.sf.count), failAt) } :
                /\ failAt > 0 => r.threw
                /\ teamMembers' = r.tm
                /\ changeHistory' = r.ch
                /\ lastDiff' = [firmId |-> job.firm, scraped |-> Roster(job.sf.count),
                                previous |-> getActiveTeamMembersByFirm(teamMembers, job.firm),
                                rowsBefore |-> Len(teamMembers),
                                eventsBefore |-> Len(changeHistory),
                                count |-> r.count, threw |-> r.threw,
                                failAt |-> failAt]
                /\ faults' = IF r.threw THEN faults + 1 ELSE faults
                /\ job' = BeginFirm([job EXCEPT
                                        !.caught = IF r.threw THEN @ \cup {job.firm} ELSE @,
                                        !.delayed = IF DelayAfterFirm(job.kind, ~r.threw)
                                                    THEN @ \cup {job.firm} ELSE @],
                                    AfterFirm(job.queue, r.threw))
       ELSE /\ failAt = 0
            /\ job' = BeginFirm([job EXCEPT !.caught =
                                    IF job.sf.state = "threw"
                                    THEN @ \cup {job.firm} ELSE @],
                                AfterFirm(job.queue, job.sf.state = "threw"))
            /\ UNCHANGED <<teamMembers, changeHistory, lastDiff, faults>>
    /\ UNCHANGED <<scrapeHistory, firms, browser, openPages, diffWork, dupGiven,
                   firmRuns,
                   runs, page, call>>

\* The end of the job.  runScrapingJob ends in finally { webScraper.close() };
\* the two routes respond and leave the browser as it is.
FinishJob ==
    /\ job.pc = "finish"
    /\ job' = [job EXCEPT !.pc = "done"]
    /\ browser' = IF job.kind = "scheduled" THEN "closed" ELSE browser
    /\ openPages' = IF job.kind = "scheduled" THEN 0 ELSE openPages
    /\ UNCHANGED <<teamMembers, changeHistory, scrapeHistory, firms, lastDiff,
                   diffWork, faults, dupGiven, firmRuns,
                   runs, page, call>>

Init ==
    /\ teamMembers = << >>
    /\ InitTables

Next ==
    \/ StartScheduled
    \/ StartAll
    \/ \E f \in Firms : StartSingle(f)
    \/ \E out \in StaticOutcomes : StaticAttempt(out)
    \/ \E out \in DynamicOutcomes : DynamicAttempt(out)
    \/ \E tryFault \in TryFaults, catchFault \in CatchFaults :
          RecordScrape(tryFault, catchFault)
    \/ \E failAt \in 0..MaxFailAt : CallerStep(failAt)
    \/ FinishJob

Spec == Init /\ [][Next]_vars

----------------------------------------------------------------------------
(* Properties of the acquisition (Spec) *)

\* the static attempt threw, got a non-success status, or found fewer than 5
StaticFellShort ==
    \/ job.static.kind \in {"threw", "notOk"}
    \/ job.static.kind = "parsed" /\ job.static.count < 5

\* scrapeFirmWithFallback has settled for the current firm
AttemptsOver == job.pc \in {"record", "caller"}

\* C5: the static attempt runs first, and the dynamic attempt runs if and only
\* if the static one threw, got a non-success status or found fewer than 5
\* members; a static result of 5 or more is returned without a browser launch.
C5_StaticFirst ==
    /\ job.pc = "static" => job.dynamic.kind = "none" /\ job.static.kind = "none"
    /\ job.dynamic.kind # "none" => job.static.kind # "none"
    /\ job.pc = "dynamic" => StaticFellShort
    /\ AttemptsOver => (job.dynamic.kind # "none" <=> StaticFellShort)
    /\ (job.static.kind = "parsed" /\ job.static.count >= 5)
          => job.dynamic.kind = "none" /\ ~job.launched /\ AttemptsOver

\* a static result of exactly 5 members was returned, the browser untouched
C5_Witness ==
    /\ job.pc = "record"
    /\ job.static = [kind |-> "parsed", count |-> 5]
    /\ job.dynamic.kind = "none"
    /\ job.ff.count = 5
    /\ browser = "closed"

Max(a, b) == IF a >= b THEN a ELSE b

\* C6: when a run escalates and both attempts come back with a list, the final
\* member list has max(s, d) records.
C6_BetterOfTwo ==
    (job.pc = "record" /\ job.static.kind = "parsed" /\ job.dynamic.kind = "returned")
        => /\ job.ff.state = "returned"
           /\ job.ff.count = Max(job.static.count, job.dynamic.count)

BothAttemptsFailed ==
    /\ job.static.kind \in {"threw", "notOk"}
    /\ job.dynamic.kind \in {"launchThrew", "threw"}

\* the scrape_history rows written for the current firm's run
RunRows == SubSeq(scrapeHistory, job.rowsBefore + 1, Len(scrapeHistory))

\* C7: when scrapeFirm returns after both attempts failed, or with zero
\* records, the attempt it recorded has status error and the result carries
\* the error.
C7_ZeroIsFailure ==
    (job.pc = "caller" /\ job.sf.state = "returned"
        /\ (BothAttemptsFailed \/ job.sf.count = 0))
        => /\ job.sf.error
           /\ RunRows # << >>
           /\ RunRows[Len(RunRows)].status = "error"

AttemptsMade ==
    (IF job.static.kind # "none" THEN 1 ELSE 0) + (IF job.dynamic.kind # "none" THEN 1 ELSE 0)

\* C8: when scrapeFirm has settled and no write was rejected, the run has
\* appended one attempt record for each attempt it made: two when it
\* escalated, one when it did not.
C8_OneRecordPerAttempt ==
    (job.pc = "caller" /\ faults = 0) => Len(RunRows) = AttemptsMade

\* C9: scrapeFirm never throws to its caller.
C9_NeverThrows == job.sf.state # "threw"

IsBatch == job.kind \in {"scheduled", "all"}

\* C10: in a batch every firm of the batch is processed, in order, whatever
\* was thrown while an earlier firm was processed: the firms taken up so far
\* followed by the firms still to come are the batch, and when the loop has
\* ended every firm of the batch has been taken up.
C10_BatchContinues ==
    IsBatch =>
        /\ job.visited \o job.queue = job.batch
        /\ job.pc \in {"finish", "done"} => job.visited = job.batch

\* a batch of two ended after an exception was caught at its first firm
C10_Witness ==
    /\ IsBatch
    /\ job.pc = "done"
    /\ Len(job.batch) = 2
    /\ job.batch[1] \in job.caught
    /\ job.visited = job.batch

\* the request or job has ended: its response is sent, its promise settled
JobOver == job.kind # "none" /\ job.pc = "done"

\* C11: when a single-firm run, a POST /api/scrape/all batch or a scheduled
\* job has ended, on whatever path its targets' runs ended, the browser and
\* its context are closed and no page is left open.
C11_BrowserReleased == JobOver => (browser = "closed" /\ openPages = 0)

----------------------------------------------------------------------------
(* Triggers: the cron callback and the scrape routes, each starting its    *)
(* handler when it fires.  The handlers are async functions on one event   *)
(* loop: one runs until its next await, then any other may run.            *)

MaxTriggers == 2    \* cron ticks and scrape requests over a behaviour

NewRun(kind, batch) ==
    [kind |-> kind, queue |-> batch, firm |-> 0, pc |-> "loop", found |-> 0]

\* A handler starts and takes its list of firms, whatever the others are doing.
Trigger(kind, batch) ==
    /\ Len(runs) < MaxTriggers
    /\ runs' = Append(runs, NewRun(kind, batch))
    /\ UNCHANGED <<teamMembers, changeHistory, scrapeHistory, firms, browser,
                   openPages, job, lastDiff, diffWork, faults, dupGiven, firmRuns,
                   page, call>>

\* cron.schedule('0 2 * * 1', ...) fires: await this.runScrapingJob()
CronTick == Trigger("cron", FirmsInOrder)

\* POST /api/scrape/run: schedulerService.runScrapingJob(), not awaited
PostRun == Trigger("run", FirmsInOrder)

\* POST /api/scrape/firm/:id
PostFirm(f) == Trigger("single", <<f>>)

\* POST /api/scrape/all
PostAll == Trigger("all", SelectSeq(FirmsInOrder, LAMBDA f : firms[f].status = "active"))

\* The handler takes its next firm and calls webScraper.scrapeFirm(firm).
EnterScrapeFirm(r) ==
    /\ runs[r].pc = "loop"
    /\ runs[r].queue # << >>
    /\ runs' = [runs EXCEPT ![r] = [@ EXCEPT !.pc = "scraping",
                                             !.firm = Head(runs[r].queue),
                                             !.queue = Tail(runs[r].queue)]]
    /\ UNCHANGED <<teamMembers, changeHistory, scrapeHistory, firms, browser,
                   openPages, job, lastDiff, diffWork, faults, dupGiven, firmRuns,
                   page, call>>

\* the static attempt sufficed; the dynamic attempt returned its members; the
\* static attempt threw and a page step of the dynamic attempt threw
ScrapeOutcomes == {"static", "dynamic", "failed"}

FoundBy(out) ==
    CASE out = "static" -> MinMembers
      [] out = "dynamic" -> 2
      [] OTHER -> 0

\* scrapeFirm settles: its scrape_history row and its update of the firm.
LeaveScrapeFirm(r, out) ==
    /\ runs[r].pc = "scraping"
    /\ scrapeHistory' = createScrapeHistory(scrapeHistory, runs[r].firm,
                            IF out = "failed" THEN "error" ELSE "success", FoundBy(out))
    /\ firms' = IF out = "failed"
                THEN [firms EXCEPT ![runs[r].firm].status = "error"]
                ELSE [firms EXCEPT ![runs[r].firm].lastScraped = TRUE]
    /\ browser' = IF out = "static" THEN browser ELSE "open"
    /\ openPages' = IF out = "failed" THEN openPages + 1 ELSE openPages
    /\ runs' = [runs EXCEPT ![r] = [@ EXCEPT !.pc = IF out = "failed" THEN "loop"
                                                    ELSE "diffing",
                                             !.found = FoundBy(out)]]
    /\ UNCHANGED <<teamMembers, changeHistory, job, lastDiff, diffWork, faults,
                   dupGiven, firmRuns, page, call>>

\* webScraper.detectChanges(firm.id, result.members) settles.
LeaveDetectChanges(r) ==
    /\ runs[r].pc = "diffing"
    /\ \E d \in { detectChanges(teamMembers, changeHistory, runs[r].firm,
                                Roster(runs[r].found), 0) } :
          /\ teamMembers' = d.tm
          /\ changeHistory' = d.ch
    /\ runs' = [runs EXCEPT ![r].pc = "loop"]
    /\ UNCHANGED <<scrapeHistory, firms, browser, openPages, job, lastDiff,
                   diffWork, faults, dupGiven, firmRuns, page, call>>

\* The loop is over.  runScrapingJob ends in finally { webScraper.close() };
\* the routes send their response.
EndRun(r) ==
    /\ runs[r].pc = "loop"
    /\ runs[r].queue = << >>
    /\ runs' = [runs EXCEPT ![r].pc = "ended"]
    /\ browser' = IF runs[r].kind \in {"cron", "run"} THEN "closed" ELSE browser
    /\ openPages' = IF runs[r].kind \in {"cron", "run"} THEN 0 ELSE openPages
    /\ UNCHANGED <<teamMembers, changeHistory, scrapeHistory, firms, job,
                   lastDiff, diffWork, faults, dupGiven, firmRuns, page, call>>

NextTriggers ==
    \/ CronTick
    \/ PostRun
    \/ \E f \in Firms : PostFirm(f)
    \/ PostAll
    \/ \E r \in 1..Len(runs) : EnterScrapeFirm(r)
    \/ \E r \in 1..Len(runs), out \in ScrapeOutcomes : LeaveScrapeFirm(r, out)
    \/ \E r \in 1..Len(runs) : LeaveDetectChanges(r)
    \/ \E r \in 1..Len(runs) : EndRun(r)

SpecTriggers == Init /\ [][NextTriggers]_vars

\* the handlers that are inside scrapeFirm
Scraping == { r \in 1..Len(runs) : runs[r].pc = "scraping" }

\* C12: at any moment at most one target is being scraped, also when a cron
\* tick or a POST to /api/scrape/run, /api/scrape/firm/:id or /api/scrape/all
\* arrives while an earlier job is still running.
C12_OneAtATime == Cardinality(Scraping) <= 1

----------------------------------------------------------------------------
(* The page of a dynamic attempt: clickAllTabs, clickLoadMore,             *)
(* infiniteScroll, detectAndHandleStageFilters                             *)

\* Math.min(tabs.length, 12)
MaxTabClicks == 12

\* the tabs the first matching selector finds on a page, and the stage filters
TabCounts == {0, 2, MaxTabClicks + 1}

FilterCounts == {0, 1, 2}

Min(a, b) == IF a <= b THEN a ELSE b

\* The click and the wait both settle in time; waitForLoadState('networkidle')
\* times out; the click itself rejects.
ControlOutcomes == {"signalled", "timedOut", "clickFailed"}

\* as ControlOutcomes, and detectAndHandlePagination throws inside the try
FilterOutcomes == ControlOutcomes \cup {"paginationThrew"}

\* a control whose activation threw ends the attempt
AfterControlThrowing(p, out) ==
    IF out = "signalled"
    THEN [p EXCEPT !.i = @ + 1]
    ELSE [p EXCEPT !.pc = "threw", !.missed = @ + 1]

\* try { click; wait } catch {}: the loop goes on with the next control
AfterControl(p, out) ==
    [p EXCEPT !.i = @ + 1,
              !.missed = IF out = "signalled" THEN @ ELSE @ + 1,
              !.stages = IF p.pc = "filters" /\ out = "signalled" THEN @ + 1 ELSE @]

\* initialize(), context.newPage(), page.goto(): a page with its controls
OpenPage(nTabs, nFilters) ==
    /\ page.pc = "none"
    /\ page' = [NoPage EXCEPT !.pc = "tabs", !.tabs = nTabs, !.filters = nFilters]
    /\ browser' = "open"
    /\ openPages' = openPages + 1
    /\ UNCHANGED <<teamMembers, changeHistory, scrapeHistory, firms, job, lastDiff,
                   diffWork, faults, dupGiven, firmRuns, runs, call>>

\* clickAllTabs: one pass of the inner loop
ClickTab(out) ==
    /\ page.pc = "tabs"
    /\ page.i < Min(page.tabs, MaxTabClicks)
    /\ page' = AfterControl(page, out)
    /\ UNCHANGED <<teamMembers, changeHistory, scrapeHistory, firms, browser,
                   openPages, job, lastDiff, diffWork, faults, dupGiven, firmRuns,
                   runs, call>>

\* clickAllTabs returns; clickLoadMore and infiniteScroll run, whose waits and
\* evaluations are outside any try
LeaveTabs(threw) ==
    /\ page.pc = "tabs"
    /\ page.i = Min(page.tabs, MaxTabClicks)
    /\ page' = [page EXCEPT !.pc = IF threw THEN "threw" ELSE "filters", !.i = 0]
    /\ UNCHANGED <<teamMembers, changeHistory, scrapeHistory, firms, browser,
                   openPages, job, lastDiff, diffWork, faults, dupGiven, firmRuns,
                   runs, call>>

\* detectAndHandleStageFilters: one pass of the loop over the filters
ClickFilter(out) ==
    /\ page.pc = "filters"
    /\ page.i < page.filters
    /\ page' = AfterControl(page, out)
    /\ UNCHANGED <<teamMembers, changeHistory, scrapeHistory, firms, browser,
                   openPages, job, lastDiff, diffWork, faults, dupGiven, firmRuns,
                   runs, call>>

\* detectAndHandleStageFilters returns (with no filter it is
\* detectAndHandlePagination that runs, outside any try); page.content(),
\* page.screenshot(), page.close().  A throw leaves the page open.
LeavePage(threw) ==
    /\ page.pc = "filters"
    /\ page.i = page.filters
    /\ page' = [page EXCEPT !.pc = IF threw THEN "threw" ELSE "returned"]
    /\ openPages' = IF threw THEN openPages ELSE openPages - 1
    /\ UNCHANGED <<teamMembers, changeHistory, scrapeHistory, firms, browser,
                   job, lastDiff, diffWork, faults, dupGiven, firmRuns, runs, call>>

NextPage ==
    \/ \E nTabs \in TabCounts, nFilters \in FilterCounts : OpenPage(nTabs, nFilters)
    \/ \E out \in ControlOutcomes : ClickTab(out)
    \/ \E threw \in BOOLEAN : LeaveTabs(threw)
    \/ \E out \in FilterOutcomes : ClickFilter(out)
    \/ \E threw \in BOOLEAN : LeavePage(threw)

SpecPage == Init /\ [][NextPage]_vars

\* Every click, wait and navigation of the attempt carries a timeout, so each
\* step of the attempt settles.
SpecPageFair == SpecPage /\ WF_vars(NextPage)

PageOver == page.pc \in {"returned", "threw"}

----------------------------------------------------------------------------
(* The pure helpers of WebScraper, each called once on an argument         *)

MaxDedupLen == 3    \* records in a list given to deduplicateMembers
MaxNameLen == 4     \* characters in a name given to normalizeName

\* A record as a strategy other than extractMemberInfo may build it: without
\* entityKey, and with or without normalizedName.
KeylessMember(name, normalizedName) ==
    [name |-> name, title |-> UNDEF, bio |-> UNDEF, imageUrl |-> UNDEF,
     location |-> UNDEF, seniorityLevel |-> UNDEF, category |-> UNDEF,
     normalizedName |-> normalizedName, entityKey |-> NoKey]

DedupInputs ==
    { extractMemberInfo(<<"A", "l">>, FullCard), extractMemberInfo(<<"A", "l">>, BareCard),
      extractMemberInfo(<<"B", "o">>, FullCard),
      KeylessMember(<<"A", "l">>, <<"a", "l">>), KeylessMember(<<"A", "L">>, NoKey) }

NameChars == {" ", ".", "A", "b"}

RECURSIVE SeqsUpTo(_, _)
SeqsUpTo(S, n) == IF n = 0 THEN { << >> } ELSE SeqsOfLen(S, n) \cup SeqsUpTo(S, n - 1)

\* deduplicateMembers(members)
DeduplicateMembersCall(members) ==
    /\ call.fn = "none"
    /\ call' = [fn |-> "deduplicateMembers", members |-> members,
                out |-> deduplicateMembers(members)]
    /\ UNCHANGED <<teamMembers, changeHistory, scrapeHistory, firms, browser,
                   openPages, job, lastDiff, diffWork, faults, dupGiven, firmRuns,
                   runs, page>>

\* normalizeName(name), and normalizeName of its result
NormalizeNameCall(name) ==
    /\ call.fn = "none"
    /\ call' = [fn |-> "normalizeName", name |-> name, out |-> normalizeName(name),
                again |-> normalizeName(normalizeName(name))]
    /\ UNCHANGED <<teamMembers, changeHistory, scrapeHistory, firms, browser,
                   openPages, job, lastDiff, diffWork, faults, dupGiven, firmRuns,
                   runs, page>>

\* the profile URLs and e-mail addresses a card may carry; NoKey when it has none
LinkedinUrls == { NoKey, <<"l", "n", "/", "A", "l">>, <<"l", "n", "/", "b", "o">> }

Emails == { NoKey, <<"A", "l", "@", "B">>, <<"b", "o", "@", "b">> }

KeyNames == Names \cup { <<" ", "A", ".", " ", "L">> }

\* computeEntityKey({ name, linkedinUrl, email })
ComputeEntityKeyCall(name, linkedinUrl, email) ==
    /\ call.fn = "none"
    /\ call' = [fn |-> "computeEntityKey", name |-> name, linkedinUrl |-> linkedinUrl,
                email |-> email, out |-> computeEntityKey(name, linkedinUrl, email)]
    /\ UNCHANGED <<teamMembers, changeHistory, scrapeHistory, firms, browser,
                   openPages, job, lastDiff, diffWork, faults, dupGiven, firmRuns,
                   runs, page>>

NextHelpers ==
    \/ \E members \in SeqsUpTo(DedupInputs, MaxDedupLen) : DeduplicateMembersCall(members)
    \/ \E name \in SeqsUpTo(NameChars, MaxNameLen) : NormalizeNameCall(name)
    \/ \E name \in KeyNames, linkedinUrl \in LinkedinUrls, email \in Emails :
          ComputeEntityKeyCall(name, linkedinUrl, email)

SpecHelpers == Init /\ [][NextHelpers]_vars

KeysOf(members) == { DedupKey(members[i]) : i \in 1..Len(members) }

\* out keeps records of members, in their order
RECURSIVE IsSubsequence(_, _)
IsSubsequence(out, members) ==
    IF out = << >> THEN TRUE
    ELSE IF members = << >> THEN FALSE
    ELSE IF Head(out) = Head(members) THEN IsSubsequence(Tail(out), Tail(members))
    ELSE IsSubsequence(out, Tail(members))

\* C14: the output of deduplicateMembers is made of input records and has
\* exactly one record for each distinct key (entityKey, else normalizedName,
\* else the lowercased name) of the input: records sharing a key collapse to
\* one, and no key is lost.
C14_OnePerKey ==
    call.fn = "deduplicateMembers" =>
        /\ IsSubsequence(call.out, call.members)
        /\ KeysOf(call.out) = KeysOf(call.members)
        /\ Cardinality(KeysOf(call.out)) = Len(call.out)

\* three records, two of them sharing a key and not adjacent, came out as two
C14_Witness ==
    /\ call.fn = "deduplicateMembers"
    /\ Len(call.members) = 3
    /\ DedupKey(call.members[1]) = DedupKey(call.members[3])
    /\ DedupKey(call.members[1]) # DedupKey(call.members[2])
    /\ call.members[1] # call.members[3]
    /\ Len(call.out) = 2

\* C15: normalizeName(normalizeName(x)) = normalizeName(x) for every name x.
C15_NormalizeIdempotent == call.fn = "normalizeName" => call.again = call.out

\* the first three characters of a key
KeyPrefix(key) == SubSeq(key, 1, 3)

\* the key after its prefix
KeyBody(key) == SubSeq(key, 4, Len(key))

\* C16: computeEntityKey takes the key from the profile URL whenever there is
\* one, otherwise from the lowercased e-mail address when there is one,
\* otherwise from the normalized name; a record with both an e-mail address
\* and a profile URL never gets an e-mail key.
C16_KeyPrecedence ==
    call.fn = "computeEntityKey" =>
        /\ call.linkedinUrl # NoKey
              => /\ KeyPrefix(call.out) = <<"l", "i", ":">>
                 /\ KeyBody(call.out) = call.linkedinUrl
        /\ (call.linkedinUrl = NoKey /\ call.email # NoKey)
              => /\ KeyPrefix(call.out) = <<"e", "m", ":">>
                 /\ KeyBody(call.out) = toLowerCase(call.email)
        /\ (call.linkedinUrl = NoKey /\ call.email = NoKey)
              => /\ KeyPrefix(call.out) = <<"n", "m", ":">>
                 /\ KeyBody(call.out) = normalizeName(call.name)

\* a record with an e-mail address in capitals and a profile URL got its key
\* from the profile URL
C16_Witness ==
    /\ call.fn = "computeEntityKey"
    /\ call.linkedinUrl # NoKey
    /\ call.email # NoKey
    /\ toLowerCase(call.email) # call.email
    /\ KeyPrefix(call.out) = <<"l", "i", ":">>

----------------------------------------------------------------------------
(* Change detection on members found again: detectChanges called with the  *)
(* cards of two people as the stage filters of a page list them            *)

MaxMatchLen == 2    \* records in a list given to a call of SpecMatch

MatchMembers ==
    { extractMemberInfo(<<"B", "o">>, FullCard), extractMemberInfo(<<"B", "o">>, SeedCard),
      extractMemberInfo(<<"A", "l">>, FullCard), extractMemberInfo(<<"A", "l">>, SeedCard) }

NextMatch ==
    \E firmId \in DiffFirms, n \in 0..MaxMatchLen :
        \E scraped \in SeqsOfLen(MatchMembers, n) :
            DetectChangesCall(firmId, scraped, 0)

SpecMatch == Init /\ [][NextMatch]_vars

----------------------------------------------------------------------------
(* Properties of detectChanges on matched pairs (SpecMatch, SpecDiff) *)

\* the fields of the fixed set that this model carries
SameFixedFields(m, s) == SameFields(m, s) /\ SameValue(m.category, s.category)

\* the stored row holds every value the scraped record carries
HoldsValuesOf(row, s) ==
    /\ s.title # UNDEF => row.title = s.title
    /\ s.bio # UNDEF => row.bio = s.bio
    /\ s.imageUrl # UNDEF => row.imageUrl = s.imageUrl
    /\ s.location # UNDEF => row.location = s.location
    /\ s.seniorityLevel # UNDEF => row.seniorityLevel = s.seniorityLevel
    /\ s.category # UNDEF => row.category = s.category

\* C17: for a stored member and a scraped record with the same key (keys
\* unique on both sides, the call returning), the stored member is updated
\* and exactly one `updated` event is emitted for it if and only if at least
\* one field of the fixed set differs between the two; otherwise the row is
\* left as it was and no `updated` event is emitted.
C17_UpdatedIffDiffers ==
    (DiffDone /\ ~lastDiff.threw /\ UniqueKeys(lastDiff.previous, lastDiff.scraped))
        => \A i \in 1..Len(lastDiff.previous), j \in 1..Len(lastDiff.scraped) :
              LET m == lastDiff.previous[i]
                  s == lastDiff.scraped[j]
              IN CurrentKey(m) = ScrapedKey(s)
                    => IF SameFixedFields(m, s)
                       THEN /\ EventsFor("updated", m.id) = {}
                            /\ teamMembers[m.id] = m
                       ELSE /\ Cardinality(EventsFor("updated", m.id)) = 1
                            /\ HoldsValuesOf(teamMembers[m.id], s)

\* the write that rejected in the last call was a createChangeHistory: every
\* change makes its roster write first and its event write second
EventWriteFailed == lastDiff.failAt > 0 /\ lastDiff.failAt % 2 = 0

\* C18: when the write of one change event rejects during a call, the other
\* removals and additions of the call are still processed and their events
\* written: every stored member missing from the scraped list is inactive,
\* every scraped key missing from the roster has an active row, and at most
\* the one event is missing.
C18_EventFailureContinues ==
    (DiffDone /\ EventWriteFailed /\ UniqueKeys(lastDiff.previous, lastDiff.scraped))
        => LET P == lastDiff.previous
               N == lastDiff.scraped
               changes == Cardinality(CurrentKeys(P) \ ScrapedKeys(N))
                            + Cardinality(ScrapedKeys(N) \ CurrentKeys(P))
           IN /\ \A i \in 1..Len(P) :
                    CurrentKey(P[i]) \notin ScrapedKeys(N)
                        => ~teamMembers[P[i].id].isActive
              /\ \A j \in 1..Len(N) :
                    ScrapedKey(N[j]) \notin CurrentKeys(P)
                        => \E id \in ActiveRows(lastDiff.firmId) :
                              teamMembers[id].entityKey = ScrapedKey(N[j])
              /\ Cardinality(EventsOfType("removed")) + Cardinality(EventsOfType("added"))
                    >= changes - 1

\* C19: a stored active member without entityKey is matched to the scraped
\* record whose normalized name is the member's normalized name: the call
\* emits no `removed` event for the member and no `added` event for the
\* record, and the member stays active.
C19_KeylessMatchedByName ==
    (DiffDone /\ ~lastDiff.threw /\ UniqueKeys(lastDiff.previous, lastDiff.scraped))
        => \A i \in 1..Len(lastDiff.previous), j \in 1..Len(lastDiff.scraped) :
              LET m == lastDiff.previous[i]
                  s == lastDiff.scraped[j]
              IN (m.entityKey = NoKey /\ normalizeName(m.name) = normalizeName(s.name))
                    => /\ EventsFor("removed", m.id) = {}
                       /\ teamMembers[m.id].isActive
                       /\ \A e \in EventsOfType("added") :
                             RunEvents[e].memberName # s.name

\* the orderings of a list
Orderings(list) ==
    { [i \in 1..Len(list) |-> list[f[i]]] : f \in Permutations(1..Len(list)) }

\* the list with two of its members exchanged, for every two of them.  Every
\* ordering of a list is reached by such exchanges one after another.
Exchanges(list) ==
    { [k \in 1..Len(list) |-> IF k = i THEN list[j] ELSE IF k = j THEN list[i] ELSE list[k]] :
        i \in 1..Len(list), j \in 1..Len(list) }

\* team_members as the last call found it: the call changed only rows that
\* were active rows of its firm, and appended the rows it created
TableBefore ==
    [id \in 1..lastDiff.rowsBefore |->
        IF \E k \in 1..Len(lastDiff.previous) : lastDiff.previous[k].id = id
        THEN lastDiff.previous[CHOOSE k \in 1..Len(lastDiff.previous) :
                                   lastDiff.previous[k].id = id]
        ELSE teamMembers[id]]

\* the events written after the first `from` rows of ch: type, key of the
\* member, data before and after
EventSetOf(tm, ch, from) ==
    { [type |-> ch[i].changeType, key |-> CurrentKey(tm[ch[i].memberId]),
       before |-> ch[i].previousData, after |-> ch[i].newData] :
        i \in (from + 1)..Len(ch) }

\* For a stored roster whose members have distinct keys and a scraped
\* list, a call in which no write rejects produces the same set of events
\* (type, member key, data before and after) for every ordering of the stored
\* members and every ordering of the scraped members.  The scraped orderings
\* are taken one exchange at a time: the calls of SpecDiff are given every
\* list, so the exchanged list is the list of another call on the same
\* roster, where the property holds again.
OrderIndependentOnDistinctKeys ==
    (DiffDone /\ lastDiff.failAt = 0
        /\ Cardinality(CurrentKeys(lastDiff.previous)) = Len(lastDiff.previous))
        => \A current \in Orderings(lastDiff.previous),
              scraped \in Exchanges(lastDiff.scraped) :
              LET r == detectChangesOn(TableBefore,
                                       SubSeq(changeHistory, 1, lastDiff.eventsBefore),
                                       lastDiff.firmId, current, scraped, 0)
              IN EventSetOf(r.tm, r.ch, lastDiff.eventsBefore)
                    = EventSetOf(teamMembers, changeHistory, lastDiff.eventsBefore)

\* a call on a roster of two or more, given two or more different records,
\* removed a member and added another
OrderIndependentWitness ==
    /\ DiffDone
    /\ lastDiff.failAt = 0
    /\ Len(lastDiff.previous) >= 2
    /\ Cardinality(CurrentKeys(lastDiff.previous)) = Len(lastDiff.previous)
    /\ Len(lastDiff.scraped) >= 2
    /\ lastDiff.scraped[1] # lastDiff.scraped[2]
    /\ EventsOfType("removed") # {}
    /\ EventsOfType("added") # {}

----------------------------------------------------------------------------
(* The acquisition against a site that may stop answering.  fetch() is     *)
(* called without a signal, and page.evaluate() has no timeout: neither    *)
(* settles until the site answers.  startTime is read only to compute the  *)
(* duration column.                                                        *)

\* await fetch(firm.teamPageUrl, { headers }) stays pending
StaticNeverSettles ==
    /\ job.pc = "static"
    /\ job' = [job EXCEPT !.pc = "pending", !.static = [kind |-> "pending", count |-> 0]]
    /\ UNCHANGED <<teamMembers, changeHistory, scrapeHistory, firms, browser,
                   openPages, lastDiff, diffWork, faults, dupGiven, firmRuns,
                   runs, page, call>>

\* a page.evaluate() of clickLoadMore or infiniteScroll stays pending, the
\* page open
DynamicNeverSettles ==
    /\ job.pc = "dynamic"
    /\ browser' = "open"
    /\ openPages' = openPages + 1
    /\ job' = [job EXCEPT !.pc = "pending", !.dynamic = [kind |-> "pending", count |-> 0],
                          !.launched = (browser = "closed")]
    /\ UNCHANGED <<teamMembers, changeHistory, scrapeHistory, firms, lastDiff,
                   diffWork, faults, dupGiven, firmRuns, runs, page, call>>

NextUnresponsive ==
    \/ Next
    \/ StaticNeverSettles
    \/ DynamicNeverSettles

\* the steps of scrapeFirm whose awaited promise settles
ScrapeFirmSteps ==
    \/ \E out \in StaticOutcomes : StaticAttempt(out)
    \/ \E out \in DynamicOutcomes : DynamicAttempt(out)
    \/ \E tryFault \in TryFaults, catchFault \in CatchFaults :
          RecordScrape(tryFault, catchFault)

\* The runtime resumes scrapeFirm whenever the promise it awaits has settled.
SpecUnresponsive == Init /\ [][NextUnresponsive]_vars /\ WF_vars(ScrapeFirmSteps)

\* scrapeFirm has settled for the current firm, or the loop has moved on
RunSettled == job.pc \in {"caller", "finish", "done"}

\* C21: every run of one target reaches a terminal result, success or error,
\* however the remote site behaves, and the batch then goes on: a run that
\* has started its static attempt leads to scrapeFirm settling.
C21_WithinBudget == (job.pc = "static") ~> RunSettled

(***************************************************************************)
(* The scroll-until-stable loops.  Each cycle scrolls to the bottom, waits *)
(* and reads the document height; the page answers with any height of      *)
(* Heights, so a behaviour is one sequence of observed heights.  The loops *)
(* only compare a height with the one before it, so a page that grows on   *)
(* every cycle is a sequence whose neighbours always differ.               *)
(***************************************************************************)
MaxHeight == 3

MaxPagesProcessed == 3

Heights == 1..MaxHeight

\* WebScraper.infiniteScroll: the reads before the loop
InfiniteScrollEnter(height) ==
    /\ call.fn = "none"
    /\ call' = [fn |-> "infiniteScroll", pc |-> "loop", lastHeight |-> height,
                stableCount |-> 0, i |-> 0]
    /\ UNCHANGED <<teamMembers, changeHistory, scrapeHistory, firms, browser,
                   openPages, job, lastDiff, diffWork, faults, dupGiven, firmRuns,
                   runs, page>>

\* WebScraper.infiniteScroll: one pass of for (let i = 0; i < 10; i++)
InfiniteScrollCycle(newHeight) ==
    /\ call.fn = "infiniteScroll"
    /\ call.pc = "loop"
    /\ call.i < 10
    /\ LET same == newHeight = call.lastHeight
           stableCount == IF same THEN call.stableCount + 1 ELSE 0
           broke == same /\ stableCount >= 2
       IN  call' = [call EXCEPT
                       !.stableCount = stableCount,
                       !.lastHeight = IF same THEN @ ELSE newHeight,
                       !.i = IF broke THEN @ ELSE @ + 1,
                       !.pc = IF broke \/ call.i + 1 >= 10 THEN "done" ELSE "loop"]
    /\ UNCHANGED <<teamMembers, changeHistory, scrapeHistory, firms, browser,
                   openPages, job, lastDiff, diffWork, faults, dupGiven, firmRuns,
                   runs, page>>

\* handlePagination: the reads before while (scrollAttempts < 6)
HandlePaginationEnter(height, pagesProcessed) ==
    /\ call.fn = "none"
    /\ call' = [fn |-> "handlePagination", pc |-> "loop", lastHeight |-> height,
                scrollAttempts |-> 0, pagesProcessed |-> pagesProcessed]
    /\ UNCHANGED <<teamMembers, changeHistory, scrapeHistory, firms, browser,
                   openPages, job, lastDiff, diffWork, faults, dupGiven, firmRuns,
                   runs, page>>

\* handlePagination: one pass of while (scrollAttempts < 6); pagesProcessed is
\* only reported, and is kept at MaxPagesProcessed once it gets there
HandlePaginationCycle(newHeight) ==
    /\ call.fn = "handlePagination"
    /\ call.pc = "loop"
    /\ call.scrollAttempts < 6
    /\ LET same == newHeight = call.lastHeight
           scrollAttempts == IF same THEN call.scrollAttempts + 1 ELSE 0
           broke == same /\ scrollAttempts >= 2
       IN  call' = [call EXCEPT
                       !.scrollAttempts = scrollAttempts,
                       !.lastHeight = IF same THEN @ ELSE newHeight,
                       !.pagesProcessed =
                           IF same \/ @ >= MaxPagesProcessed THEN @ ELSE @ + 1,
                       !.pc = IF broke \/ scrollAttempts >= 6 THEN "done" ELSE "loop"]
    /\ UNCHANGED <<teamMembers, changeHistory, scrapeHistory, firms, browser,
                   openPages, job, lastDiff, diffWork, faults, dupGiven, firmRuns,
                   runs, page>>

\* expandWithinState: the head of for (let i = 0; i < 12 && Date.now() < deadlineTs; i++),
\* the load-more click and the start of the in-page loop (last = 0, same = 0)
ExpandWithinStateEnter ==
    /\ call.fn = "none"
    /\ call' = [fn |-> "expandWithinState", pc |-> "outer", i |-> 0, j |-> 0,
                last |-> 0, same |-> 0, visible |-> FALSE]
    /\ UNCHANGED <<teamMembers, changeHistory, scrapeHistory, firms, browser,
                   openPages, job, lastDiff, diffWork, faults, dupGiven, firmRuns,
                   runs, page>>

ExpandWithinStateOuter(visible, expired) ==
    /\ call.fn = "expandWithinState"
    /\ call.pc = "outer"
    /\ call' = IF call.i < 12 /\ ~expired
                  THEN [call EXCEPT !.pc = "loop", !.j = 0, !.last = 0, !.same = 0,
                                    !.visible = visible]
                  ELSE [call EXCEPT !.pc = "done"]
    /\ UNCHANGED <<teamMembers, changeHistory, scrapeHistory, firms, browser,
                   openPages, job, lastDiff, diffWork, faults, dupGiven, firmRuns,
                   runs, page>>

\* expandWithinState: one pass of the in-page for (let j = 0; j < 8; j++), and
\* what the outer loop does with its answer
ExpandWithinStateCycle(h) ==
    /\ call.fn = "expandWithinState"
    /\ call.pc = "loop"
    /\ call.j < 8
    /\ LET matches == h = call.last
           same == IF matches THEN call.same + 1 ELSE 0
           stable == matches /\ same >= 2
           returned == stable \/ call.j + 1 >= 8
       IN  call' = [call EXCEPT
                       !.same = same,
                       !.last = IF matches THEN @ ELSE h,
                       !.j = IF stable THEN @ ELSE @ + 1,
                       !.i = IF returned /\ ~(~call.visible /\ stable) THEN @ + 1 ELSE @,
                       !.pc = IF ~returned THEN "loop"
                              ELSE IF ~call.visible /\ stable THEN "done"
                              ELSE "outer"]
    /\ UNCHANGED <<teamMembers, changeHistory, scrapeHistory, firms, browser,
                   openPages, job, lastDiff, diffWork, faults, dupGiven, firmRuns,
                   runs, page>>

ScrollCycle ==
    \/ \E newHeight \in Heights : InfiniteScrollCycle(newHeight)
    \/ \E newHeight \in Heights : HandlePaginationCycle(newHeight)
    \/ \E h \in Heights : ExpandWithinStateCycle(h)
    \/ \E visible \in BOOLEAN, expired \in BOOLEAN : ExpandWithinStateOuter(visible, expired)

NextScroll ==
    \/ \E height \in Heights : InfiniteScrollEnter(height)
    \/ \E height \in Heights, pagesProcessed \in 0..MaxPagesProcessed :
          HandlePaginationEnter(height, pagesProcessed)
    \/ ExpandWithinStateEnter
    \/ ScrollCycle

SpecScroll == Init /\ [][NextScroll]_vars

\* every cycle of a loop that is running is eventually taken
SpecScrollFair == SpecScroll /\ WF_vars(ScrollCycle)

ScrollRunning == call.fn \in {"infiniteScroll", "handlePagination", "expandWithinState"}
                 /\ call.pc # "done"

ScrollOver == call.fn \in {"infiniteScroll", "handlePagination", "expandWithinState"}
              /\ call.pc = "done"

\* C22: every scroll-until-stable loop that is entered ends, whatever heights
\* the page reports on its cycles.
C22_ScrollLoopEnds == ScrollRunning ~> ScrollOver

\* the loops that count their cycles do end
CappedScrollRunning == call.fn \in {"infiniteScroll", "expandWithinState"} /\ call.pc # "done"

CappedScrollLoopEnds == CappedScrollRunning ~> ScrollOver

\* the fields of a scraped record besides its name and its keys
MemberFields == {"title", "bio", "imageUrl", "location", "seniorityLevel", "category"}

Populated(v) == v # UNDEF /\ v # NULL

\* the positions of the records of members that share the key of record o, in
\* the order parseTeamPage pushed them: JSON-LD, then the selectors, then the fallback
GroupOf(members, o) == { i \in 1..Len(members) : DedupKey(members[i]) = DedupKey(o) }

\* the value of field f in the first record of the group that has it populated
FirstPopulated(members, o, f) ==
    LET having == { i \in GroupOf(members, o) : Populated(members[i][f]) }
    IN  IF having = {} THEN UNDEF
        ELSE members[CHOOSE i \in having : \A j \in having : i <= j][f]

\* C23: within a group of records sharing a key, every field of the record
\* deduplicateMembers keeps holds the value of the first record of the group,
\* in strategy order, that has the field populated; a field populated in any
\* record of the group is populated in the output.
C23_FirstPopulatedWins ==
    call.fn = "deduplicateMembers" =>
        \A k \in 1..Len(call.out) : \A f \in MemberFields :
            LET first == FirstPopulated(call.members, call.out[k], f)
            IN  IF Populated(first) THEN call.out[k][f] = first
                ELSE ~Populated(call.out[k][f])

\* C24: for a stored member and a scraped record with the same key (keys
\* unique on both sides, the call returning) in which no compared field
\* differs, the call advances the member's lastSeen, changes nothing else of
\* the row, and writes no event for the member.
C24_OnlyLastSeenAdvances ==
    (DiffDone /\ ~lastDiff.threw /\ UniqueKeys(lastDiff.previous, lastDiff.scraped))
        => \A i \in 1..Len(lastDiff.previous), j \in 1..Len(lastDiff.scraped) :
              LET m == lastDiff.previous[i]
                  s == lastDiff.scraped[j]
              IN (CurrentKey(m) = ScrapedKey(s) /\ ~hasChanges(m, s))
                    => /\ teamMembers[m.id].lastSeen > m.lastSeen
                       /\ [teamMembers[m.id] EXCEPT !.lastSeen = m.lastSeen] = m
                       /\ \A e \in 1..Len(RunEvents) : RunEvents[e].memberId # m.id

\* the part of it the code does keep: the row keeps every other column and
\* the member gets no event
UnchangedPairLeftAlone ==
    (DiffDone /\ ~lastDiff.threw /\ UniqueKeys(lastDiff.previous, lastDiff.scraped))
        => \A i \in 1..Len(lastDiff.previous), j \in 1..Len(lastDiff.scraped) :
              LET m == lastDiff.previous[i]
                  s == lastDiff.scraped[j]
              IN (CurrentKey(m) = ScrapedKey(s) /\ ~hasChanges(m, s))
                    => /\ [teamMembers[m.id] EXCEPT !.lastSeen = m.lastSeen] = m
                       /\ \A e \in 1..Len(RunEvents) : RunEvents[e].memberId # m.id

\* C25: in every batch, of the scheduled job and of POST /api/scrape/all, the
\* delay has elapsed after the run of each target that is followed by another
\* target, also when that run failed.
C25_DelayBetweenTargets ==
    job.kind \in {"scheduled", "all"}
        => \A k \in 1..(Len(job.visited) - 1) : job.visited[k] \in job.delayed

\* the delay the code does keep: in the scheduled job, after a target whose
\* scrape returned no error and whose detectChanges returned
DelayAfterCompletedTarget ==
    job.kind = "scheduled"
        => \A k \in 1..(Len(job.visited) - 1) :
              (job.visited[k] \notin job.caught
               /\ \E i \in 1..Len(scrapeHistory) :
                     /\ scrapeHistory[i].firmId = job.visited[k]
                     /\ scrapeHistory[i].status = "success"
               /\ faults = 0)
                 => job.visited[k] \in job.delayed

\* the scraped record s of the last call is of a person who reappears: no
\* active member had its key when the call began, a stored inactive one has it
Reappears(s) ==
    /\ ScrapedKey(s) \notin CurrentKeys(lastDiff.previous)
    /\ \E i \in 1..lastDiff.rowsBefore :
          /\ teamMembers[i].firmId = lastDiff.firmId
          /\ ~teamMembers[i].isActive
          /\ CurrentKey(teamMembers[i]) = ScrapedKey(s)

\* a row written by the last call is active, has the key of s, and has an `added` event
RecordedAnew(s) ==
    \E n \in (lastDiff.rowsBefore + 1)..Len(teamMembers) :
        /\ teamMembers[n].firmId = lastDiff.firmId
        /\ teamMembers[n].isActive
        /\ teamMembers[n].entityKey = ScrapedKey(s)
        /\ EventsFor("added", n) # {}

\* every member the last call reported `removed` is stored and inactive
RemovedStayStored ==
    \A e \in EventsOfType("removed") :
        /\ RunEvents[e].memberId \in 1..Len(teamMembers)
        /\ ~teamMembers[RunEvents[e].memberId].isActive

KeepsRecords ==
    /\ Len(teamMembers') >= Len(teamMembers)
    /\ \A i \in 1..Len(teamMembers) :
          /\ teamMembers'[i].id = teamMembers[i].id
          /\ teamMembers'[i].firmId = teamMembers[i].firmId
          /\ teamMembers'[i].name = teamMembers[i].name
          /\ ~teamMembers[i].isActive => teamMembers'[i] = teamMembers[i]
    /\ (DiffDone /\ RemovedStayStored)'
    /\ (~lastDiff.threw => \A j \in 1..Len(lastDiff.scraped) :
                              Reappears(lastDiff.scraped[j]) => RecordedAnew(lastDiff.scraped[j]))'

\* C26: no call of detectChanges deletes a team-member record: every stored
\* row stays stored, a member reported `removed` is stored with isActive =
\* false, an inactive row stays as it is through every later call, and a
\* person who reappears is recorded by a new active row with an `added` event.
C26_NeverDeleted == [][KeepsRecords]_vars

\* a person removed by an earlier call was found again and recorded anew,
\* while the old row is still stored and inactive
C26_Witness ==
    /\ DiffDone
    /\ ~lastDiff.threw
    /\ \E j \in 1..Len(lastDiff.scraped) :
          /\ Reappears(lastDiff.scraped[j])
          /\ RecordedAnew(lastDiff.scraped[j])
    /\ \E i \in 1..lastDiff.rowsBefore, e \in 1..lastDiff.eventsBefore :
          /\ ~teamMembers[i].isActive
          /\ changeHistory[e].changeType = "removed"
          /\ changeHistory[e].memberId = i
          /\ teamMembers[i].entityKey # NoKey

\* scrapeFirm has settled after a dynamic attempt that returned no member
EmptyDynamicResult ==
    job.pc = "caller" /\ job.dynamic = [kind |-> "returned", count |-> 0]

RemovedEventsAfter(from, memberId) ==
    { e \in (from + 1)..Len(changeHistory') :
        /\ changeHistory'[e].changeType = "removed"
        /\ changeHistory'[e].memberId = memberId }

EmptyResultClearsRoster ==
    (EmptyDynamicResult /\ faults = 0)
        => /\ job.sf = [state |-> "returned", count |-> 0, error |-> FALSE]
           /\ scrapeHistory # << >>
           /\ scrapeHistory[Len(scrapeHistory)] =
                 [firmId |-> job.firm, status |-> "success", membersFound |-> 0]
           /\ faults' = 0
                 => /\ lastDiff'.firmId = job.firm
                    /\ lastDiff'.scraped = << >>
                    /\ ~lastDiff'.threw
                    /\ \A i \in ActiveRows(job.firm) :
                          /\ ~teamMembers'[i].isActive
                          /\ Cardinality(RemovedEventsAfter(Len(changeHistory), i)) = 1
                    /\ Len(changeHistory') =
                          Len(changeHistory) + Cardinality(ActiveRows(job.firm))

\* C27: when the dynamic attempt returns without throwing and with zero members
\* (no storage write being rejected), scrapeFirm returns an empty list with no
\* error and records a success entry, and the caller, batch or single-firm,
\* runs detectChanges with the empty list: every active member of the firm is
\* deactivated and gets exactly one `removed` event.
C27_EmptyScrapeRemovesAll == [][EmptyResultClearsRoster]_vars

\* a firm with two or more active members was scraped again, the dynamic
\* attempt found nobody, and the call removed them all
C27_Witness ==
    /\ DiffDone
    /\ lastDiff.scraped = << >>
    /\ ~lastDiff.threw
    /\ Len(lastDiff.previous) >= 2
    /\ Cardinality(EventsOfType("removed")) = Len(lastDiff.previous)
    /\ ActiveRows(lastDiff.firmId) = {}
    /\ scrapeHistory # << >>
    /\ scrapeHistory[Len(scrapeHistory)] =
          [firmId |-> lastDiff.firmId, status |-> "success", membersFound |-> 0]

HasEvent(changeType, memberId) ==
    \E e \in 1..Len(changeHistory) :
        /\ changeHistory[e].changeType = changeType
        /\ changeHistory[e].memberId = memberId

\* C28: in every reachable state, also after a storage write was rejected
\* part-way through a call, each member detectChanges deactivated has a
\* `removed` event and each member it created has an `added` event.  (The rows
\* stored before the first call carry no entityKey; every row detectChanges
\* inserts has one.)
C28_WritesPaired ==
    \A i \in 1..Len(teamMembers) :
        /\ ~teamMembers[i].isActive => HasEvent("removed", i)
        /\ teamMembers[i].entityKey # NoKey => HasEvent("added", i)

\* the same, as long as no write was rejected
WritesPairedWithoutFaults == faults = 0 => C28_WritesPaired

-----------------------------------------------------------------------------
(***************************************************************************)
(* detectChanges at the grain of its awaits.  A call reads the active      *)
(* roster once, then makes its storage writes one at a time; between two   *)
(* awaits another call of detectChanges, started by another handler, may   *)
(* take its own steps.  runs[r] is the position of call r.                 *)
(***************************************************************************)
MaxCalls == 3

OverlapLists ==
    { << >>,
      <<extractMemberInfo(<<"A", "l">>, FullCard)>>,
      <<extractMemberInfo(<<"A", "l">>, BareCard)>>,
      <<extractMemberInfo(<<"B", "o">>, FullCard)>>,
      <<extractMemberInfo(<<"A", "l">>, FullCard), extractMemberInfo(<<"B", "o">>, FullCard)>> }

CallsRunning == { r \in 1..Len(runs) : runs[r].pc # "done" }

\* detectChanges(firmId, scrapedMembers) up to its first await: the call is
\* made and storage.getActiveTeamMembersByFirm answers
EnterDetectChanges(firmId, scraped) ==
    /\ Len(runs) < MaxCalls
    /\ runs' = Append(runs, [firmId |-> firmId, scraped |-> scraped,
                             currentMembers |-> getActiveTeamMembersByFirm(teamMembers, firmId),
                             pc |-> "removed", i |-> 1, written |-> 0,
                             overlapped |-> (CallsRunning # {})])
    /\ UNCHANGED <<teamMembers, changeHistory, scrapeHistory, firms, browser,
                   openPages, job, lastDiff, diffWork, faults, dupGiven, firmRuns,
                   page, call>>

\* one step of for (const currentMember of currentMembers): the member is
\* skipped, or deactivateTeamMember is awaited, or (written # 0) the
\* createChangeHistory after it
RemovedAwait(r) ==
    /\ r \in 1..Len(runs)
    /\ runs[r].pc = "removed"
    /\ LET run == runs[r]
           m == run.currentMembers[run.i]
       IN  IF run.i > Len(run.currentMembers)
           THEN /\ runs' = [runs EXCEPT ![r].pc = "scraped", ![r].i = 1]
                /\ UNCHANGED <<teamMembers, changeHistory>>
           ELSE IF ScrapedHas(run.scraped, CurrentKey(m))
           THEN /\ runs' = [runs EXCEPT ![r].i = @ + 1]
                /\ UNCHANGED <<teamMembers, changeHistory>>
           ELSE IF run.written = 0
           THEN /\ teamMembers' = deactivateTeamMember(teamMembers, m.id)
                /\ runs' = [runs EXCEPT ![r].written = m.id]
                /\ UNCHANGED changeHistory
           ELSE /\ changeHistory' = createChangeHistory(changeHistory, run.firmId, m.id,
                                                        "removed", m.name, DataOf(m), NULL)
                /\ runs' = [runs EXCEPT ![r].written = 0, ![r].i = @ + 1]
                /\ UNCHANGED teamMembers
    /\ UNCHANGED <<scrapeHistory, firms, browser, openPages, job, lastDiff,
                   diffWork, faults, dupGiven, firmRuns, page, call>>

\* one step of for (const scrapedMember of scrapedMembers): the record is
\* skipped, or createTeamMember or updateTeamMember is awaited, or
\* (written # 0) the createChangeHistory after it
ScrapedAwait(r) ==
    /\ r \in 1..Len(runs)
    /\ runs[r].pc = "scraped"
    /\ LET run == runs[r]
           s == run.scraped[run.i]
           key == ScrapedKey(s)
           found == CurrentGet(run.currentMembers, key)
           existingMember == found[1]
       IN  IF run.i > Len(run.scraped)
           THEN /\ runs' = [runs EXCEPT ![r].pc = "done"]
                /\ UNCHANGED <<teamMembers, changeHistory>>
           ELSE IF found = << >>
           THEN IF run.written = 0
                THEN /\ teamMembers' = createTeamMember(teamMembers, run.firmId, s, key)
                     /\ runs' = [runs EXCEPT ![r].written = Len(teamMembers) + 1]
                     /\ UNCHANGED changeHistory
                ELSE /\ changeHistory' = createChangeHistory(changeHistory, run.firmId,
                                                             run.written, "added", s.name,
                                                             NULL, DataOf(s))
                     /\ runs' = [runs EXCEPT ![r].written = 0, ![r].i = @ + 1]
                     /\ UNCHANGED teamMembers
           ELSE IF ~hasChanges(existingMember, s)
           THEN /\ runs' = [runs EXCEPT ![r].i = @ + 1]
                /\ UNCHANGED <<teamMembers, changeHistory>>
           ELSE IF run.written = 0
           THEN /\ teamMembers' = updateTeamMember(teamMembers, existingMember.id, s,
                                                   existingMember)
                /\ runs' = [runs EXCEPT ![r].written = existingMember.id]
                /\ UNCHANGED changeHistory
           ELSE /\ changeHistory' = createChangeHistory(changeHistory, run.firmId,
                                                        existingMember.id, "updated",
                                                        existingMember.name,
                                                        DataOf(existingMember),
                                                        UpdatedDataOf(existingMember, s))
                /\ runs' = [runs EXCEPT ![r].written = 0, ![r].i = @ + 1]
                /\ UNCHANGED teamMembers
    /\ UNCHANGED <<scrapeHistory, firms, browser, openPages, job, lastDiff,
                   diffWork, faults, dupGiven, firmRuns, page, call>>

NextOverlap ==
    \/ \E scraped \in OverlapLists : EnterDetectChanges(1, scraped)
    \/ \E r \in 1..MaxCalls : RemovedAwait(r)
    \/ \E r \in 1..MaxCalls : ScrapedAwait(r)

SpecOverlap == Init /\ [][NextOverlap]_vars

CallsOver == runs # << >> /\ CallsRunning = {}

Overlapped == \E r \in 1..Len(runs) : runs[r].overlapped

EventCount(changeType, memberId) ==
    Cardinality({ e \in 1..Len(changeHistory) :
                    /\ changeHistory[e].changeType = changeType
                    /\ changeHistory[e].memberId = memberId })

OneActivePerKeyOneEventPerChange ==
    /\ \A i, j \in ActiveRows(1) :
          i # j => teamMembers[i].entityKey # teamMembers[j].entityKey
    /\ \A i \in 1..Len(teamMembers) :
          /\ EventCount("added", i) = 1
          /\ EventCount("removed", i) = IF teamMembers[i].isActive THEN 0 ELSE 1

\* C29: when calls of detectChanges for one firm have overlapped and all have
\* returned, the roster has at most one active member for each entityKey, each
\* member added has exactly one `added` event, and each member removed has
\* exactly one `removed` event.
C29_OverlapKeepsRoster == (CallsOver /\ Overlapped) => OneActivePerKeyOneEventPerChange

\* the same holds whenever no call began while another was running
OneAtATimeKeepsRoster == (CallsOver /\ ~Overlapped) => OneActivePerKeyOneEventPerChange

\* the events a call for firm 1 would write, with the roster read in this order
EventsOfCall(current, scraped) ==
    LET r == detectChangesOn(teamMembers, changeHistory, 1, current, scraped, 0)
    IN  EventSetOf(r.tm, r.ch, Len(changeHistory))

\* C20: for the stored roster and a scraped list, detectChanges produces the
\* same set of events (type, member key, data before and after) for every
\* ordering of the stored members.  Stated for the rosters that calls of
\* detectChanges leave behind, overlapping calls included.
C20_OrderIndependent ==
    CallsOver =>
        \A scraped \in OverlapLists :
            \A current \in Orderings(getActiveTeamMembersByFirm(teamMembers, 1)) :
                EventsOfCall(current, scraped)
                    = EventsOfCall(getActiveTeamMembersByFirm(teamMembers, 1), scraped)

\* the same holds on the rosters left by calls that did not overlap
OrderIndependentWithoutOverlap == Overlapped \/ C20_OrderIndependent

\* scrape_history has an 'error' row of the firm
FailedBefore(sh, f) ==
    \E i \in 1..Len(sh) : sh[i].firmId = f /\ sh[i].status = "error"

\* scrapeFirm settles in this step, with a result or by throwing
ScrapeFirmSettles == job.pc = "record" /\ job'.pc = "caller"

StickyErrorStatus ==
    /\ \A f \in Firms :
          /\ firms[f].status = "error" => firms'[f].status = "error"
          /\ firms'[f].status # firms[f].status
                => (ScrapeFirmSettles /\ job.firm = f /\ job'.sf.error)
          /\ (faults' = 0) => (firms'[f].status = "error" <=> FailedBefore(scrapeHistory', f))
    /\ (ScrapeFirmSettles /\ job'.sf.state = "returned")
          => IF job'.sf.error
             THEN firms'[job.firm].status = "error"
             ELSE /\ firms'[job.firm].status = firms[job.firm].status
                  /\ firms'[job.firm].lastScraped
    /\ (job.pc = "done" /\ job'.pc # "done")
          => /\ (job'.kind = "all" /\ faults = 0)
                  => job'.batch = SelectSeq(FirmsInOrder,
                                            LAMBDA f : ~FailedBefore(scrapeHistory, f))
             /\ job'.kind = "scheduled" => job'.batch = FirmsInOrder

SkippedByScrapeAll ==
    /\ job.kind = "all"
    /\ \E f \in Firms :
          /\ firms[f].status = "error"
          /\ \A k \in 1..Len(job.batch) : job.batch[k] # f
====
